---------------------------- MODULE Spec2Model ----------------------------
(***************************************************************************)
(* Music-video orchestrator: the step-pipeline engine (processSteps and    *)
(* the stage handlers of src/src/steps/stepHandlers.ts) and the settlement *)
(* protocol (ensureSufficientBalance of src/src/payments/planService.ts)   *)
(* with the chain helpers of src/src/payments/blockchain.ts.               *)
(*                                                                         *)
(* Every invocation of the function returned by processSteps is a process  *)
(* p \in Procs.  An action is the code between two suspension points       *)
(* (awaits) that touch state shared with other invocations: the step       *)
(* ledger, the plan's credit balance, the chain.  The external             *)
(* collaborators (ledger, chain RPC, remote agents) answer                 *)
(* nondeterministically: a call returns one of its possible results or     *)
(* throws.  A run explores either external faults (a call throws, an order *)
(* is refused, a remote task fails or never signals) with one invocation,  *)
(* or two concurrent invocations with collaborators that fail only where   *)
(* the chain's own rules make them fail (a used nonce, missing funds).     *)
(***************************************************************************)
EXTENDS Naturals, Integers, Sequences, FiniteSets, TLC

\* ------------------------------------------------------------------ bounds
MaxCredits == 2        \* initial credit balance of the stage's plan: 0..MaxCredits
MaxItems == 2          \* sub-tasks of a fan-out stage (characters+settings, prompts): 1..MaxItems
CreditsPerOrder == 1   \* credits one successful orderPlan mints
MaxEvents == 2         \* TransferSingle events on the chain when a scan is studied alone
MaxBlock == 3          \* their block numbers: 1..MaxBlock
MaxRetryCount == 5     \* maxRetries when retryOperation is studied alone: 0..MaxRetryCount
MaxSignals == 3        \* completion signals delivered to one task callback
MaxSubTasks == 4       \* sub-tasks of a fan-out stage studied alone: 1..MaxSubTasks
MaxCalls == 3          \* accessor calls made on one PlanDDOHelper: 1..MaxCalls

\* ------------------------------------------------------ program constants
MaxRetries == 2        \* retryOperation(..., 2, ...) at every call site
TokenDecimals == 1     \* tokenContract.decimals() of the external token
PlanPrice == 1         \* priceHighestDenomination of the external plan

Procs == {1, 2}

Pending == "Pending"
Completed == "Completed"
Failed == "Failed"
Statuses == {Pending, Completed, Failed}

\* The fixed stage-name vocabulary: the keys of the `handlers` object literal.
StageNames == {"init", "callSongGenerator", "generateMusicScript",
               "callImagesGenerator", "callVideoGenerator", "compileVideo"}
\* Keys every object literal inherits from Object.prototype.  handlers["__proto__"]
\* is Object.prototype itself: truthy, and not callable.
ObjectPrototypeKeys == {"__proto__"}
Names == StageNames \cup {"foo"} \cup ObjectPrototypeKeys

\* Stages that pay an external agent, and the credits each asks settlement for.
PaidStages == {"callSongGenerator", "generateMusicScript",
               "callImagesGenerator", "callVideoGenerator"}
FanOutStages == {"callImagesGenerator", "callVideoGenerator"}

Undefined == "undefined"

VARIABLES
  steps,    \* the ledger: step id -> step record
  credits,  \* credit balance the orchestrator holds on the stage's plan
  chain,    \* signer/agent balances of the external token, tx count, height, mint events
  plan,     \* the stage's plan: ownership, descriptor contents, the operator that mints
  faulty,   \* whether external calls may fail of their own accord in this run
  pc,       \* per invocation: where it is suspended
  inv,      \* per invocation: its locals and the calls it has issued
  retry,    \* one call of retryOperation studied alone
  call,     \* one call of executeTaskWithValidation studied alone
  fan,      \* one fan-out stage studied alone, after its settlement
  helper,   \* one PlanDDOHelper instance studied alone
  taskQueues  \* the narration queues of runInQueue studied alone

vars == <<steps, credits, chain, plan, faulty, pc, inv, retry, call, fan, helper,
          taskQueues>>

\* retryOperation and executeTaskWithValidation are not running on their own.
NoRetry == [pc |-> "off", maxRetries |-> 0, onError |-> FALSE, attempt |-> 0,
            outs |-> <<>>, callbacks |-> <<>>, err |-> 0, result |-> "none"]
NoCall == [pc |-> "off", ack |-> 0, signals |-> <<>>, validating |-> 0,
           validations |-> 0, settles |-> 0, state |-> "pending", value |-> <<>>,
           task_id |-> "none"]

\* ------------------------------------------------------------- the ledger
\* payments.query.updateStep(step.did, {...step, step_status, output}): the write is
\* issued whatever the step's current status is; `hist` records every status written.
updateStep(S, id, status) ==
  [S EXCEPT ![id].status = status, ![id].hist = Append(@, status)]

\* No fan-out stage is running on its own.
NoWrite == [status |-> "none", artifacts |-> <<>>, failedCount |-> 0,
            output |-> <<>>, unsettled |-> 0, cost |-> 0]
NoFan == [pc |-> "off", stage |-> "none", sub |-> <<>>, order |-> <<>>,
          write |-> NoWrite]

\* No PlanDDOHelper is studied on its own.  `this.ddo = undefined` is version 0.
NoDDO == [version |-> 0, present |-> {}]
\* No narration queue is studied.
NoQueues == [pc |-> "off", calls |-> <<>>]
NoHelper == [pc |-> "off", ddo |-> NoDDO, present |-> {}, queries |-> 0,
             calls |-> <<>>]

\* ---------------------------------------------------- per-invocation state
NoCalls == [handler |-> 0, getPlanBalance |-> 0,
            approve |-> 0, swap |-> 0, transfer |-> 0,
            orderOp |-> 0, orderPlan |-> 0, scan |-> 0, createTask |-> 0,
            createSteps |-> 0, updateStep |-> 0,
            getTransactionCount |-> 0, warnings |-> 0,
            \* narrations handed to sendFriendlySseEvent: of type "error", and of
            \* type "warning" by the onError of a dispatch under retryOperation
            errors |-> 0, taskWarnings |-> 0]

Fresh == [step |-> 0, status |-> Undefined, name |-> Undefined, items |-> 0,
          handler |-> Undefined, threw |-> FALSE,
          required |-> 0,
          \* getPlanBalance's answer: queried = FALSE until it has answered
          queried |-> FALSE, balance |-> 0, isOwner |-> FALSE,
          \* ensureSufficientBalance: settled once it has returned, with hasBalance;
          \* creditsAtReturn is the plan's balance at that moment
          settled |-> FALSE, hasBalance |-> FALSE, creditsAtReturn |-> 0,
          \* handleInsufficientBalance: the two token addresses compared
          compared |-> FALSE, tokensDiffer |-> FALSE, agentWallet |-> FALSE,
          \* handleTokenSwapIfNeeded: the own-wallet check and the swap sub-sequence
          checked |-> FALSE, walletBalance |-> 0, sufficient |-> FALSE,
          attempt |-> 0, base |-> 0, nonce |-> 0,
          swapped |-> FALSE, transferred |-> FALSE,
          subFailed |-> FALSE,
          \* orderCreditsForPlan: 0 = height not read
          \* answered once orderPlan has returned a result, ordered when it reported success
          fromBlock |-> 0, answered |-> FALSE, ordered |-> FALSE,
          scanned |-> FALSE, reported |-> 0,
          item |-> 0, failedCount |-> 0,
          n |-> NoCalls]

Bump(r, f) == [r EXCEPT !.n[f] = @ + 1]

\* A narration that is never handed over.
sendFriendlySseEvent_unsent(r, type) == r
\* sendFriendlySseEvent(step.task_id, type, message): the call queues the record's
\* narration function for the task before it first suspends.
sendFriendlySseEvent(r, type) == Bump(r, type)

\* The invocation ends: the async function returns, or its promise rejects.
Return(p, r) == /\ pc' = [pc EXCEPT ![p] = "done"]
                /\ inv' = [inv EXCEPT ![p] = r]
Throw(p, r) == /\ pc' = [pc EXCEPT ![p] = "done"]
               /\ inv' = [inv EXCEPT ![p] = [r EXCEPT !.threw = TRUE]]
Goto(p, l, r) == /\ pc' = [pc EXCEPT ![p] = l]
                 /\ inv' = [inv EXCEPT ![p] = r]

\* ------------------------------------------------------------ token amounts
RECURSIVE Pow10(_)
Pow10(d) == IF d = 0 THEN 1 ELSE 10 * Pow10(d - 1)

\* ethers.utils.parseUnits(amount, decimals): the amount in the token's smallest unit.
parseUnits(amount, decimals) == amount * Pow10(decimals)

PriceUnits == parseUnits(PlanPrice, TokenDecimals)

\* ---------------------------------------------------------- plan descriptors
\* Token addresses as the descriptors spell them: the same address may be written
\* in lower case or with a mixed-case checksum.  id "" is an absent field.
Address(id, cs) == [id |-> id, cs |-> cs]
NoAddress == Address("", "lower")
toLowerCase(a) == [a EXCEPT !.cs = "lower"]
IsSet(a) == a.id # ""

OurToken == Address("tokenA", "lower")
ExtTokens == {NoAddress, Address("tokenA", "mixed"), Address("tokenB", "lower")}

\* The hard-coded operator of PlanDDOHelper.getMintOperator, the zero address a mint
\* comes from, the orchestrator's agent wallet, the plan's credit token id.
MintOperator == "0xd596"
ZeroAddress == "0x0000"
AgentWallet == "agentWallet"
PlanTokenId == "planTokenId"

\* What the external collaborators hold about the stage's plan: whether the
\* orchestrator owns it, the token its descriptor names, whether the orchestrator's
\* own descriptor names an agent wallet, and the operator its credits are minted by.
\* Each is fixed for the run and becomes known with the first call that reads it.
NoPlan == [isOwner |-> FALSE, token |-> NoAddress, agentWallet |-> FALSE,
           operator |-> MintOperator, read |-> {}]
Operators == {MintOperator, "0xother"}

Answers(field, values) == IF field \in plan.read THEN {plan[field]} ELSE values
Learn(pl, field, v) == [pl EXCEPT ![field] = v, !.read = @ \cup {field}]

\* ------------------------------------------------------------------- Init
\* One task with one ready step, of any name and in any status.  A stage that
\* settles starts with any credit balance and with the agent wallet either empty or
\* holding the plan's price; the signer wallet is two swaps short of it.
StepRec(t, nm, st, k) ==
  [task |-> t, name |-> nm, status |-> st, items |-> k, hist |-> <<>>,
   pred |-> 0, isLast |-> (nm = "compileVideo")]

Init ==
  /\ \E nm \in Names, st \in Statuses, k \in 1..MaxItems :
        /\ (nm \notin FanOutStages => k = 1)
        /\ steps = <<StepRec(1, nm, st, k)>>
        /\ \E c \in 0..MaxCredits, a \in {0, PriceUnits} :
              /\ (nm \notin PaidStages \/ st # Pending => c = 0 /\ a = 0)
              /\ credits = c
              /\ plan = NoPlan
              /\ chain = [signer |-> PriceUnits - 2 * PlanPrice, agent |-> a,
                          txCount |-> 0, height |-> 1, mints |-> <<>>, txs |-> {}]
  /\ faulty \in BOOLEAN
  /\ pc = [p \in Procs |-> IF faulty /\ p # 1 THEN "off" ELSE "idle"]
  /\ inv = [p \in Procs |-> Fresh]
  /\ retry = NoRetry /\ call = NoCall /\ fan = NoFan /\ helper = NoHelper
  /\ taskQueues = NoQueues

\* ------------------------------------------------------------ processSteps
\* A step-updated notification for step s starts invocation p (at-least-once
\* delivery: any existing step, any number of times; invocations are numbered in
\* order of arrival): JSON.parse, then `await payments.query.getStep(step_id)`.
getStep(p, s) ==
  /\ pc[p] = "idle"
  /\ \A q \in Procs : q < p => pc[q] # "idle"
  /\ LET r == [inv[p] EXCEPT
                 !.step = s, !.status = steps[s].status,
                 !.name = steps[s].name, !.items = steps[s].items]
     IN  \/ Goto(p, "loaded", r)
         \/ faulty /\ Throw(p, inv[p])    \* the ledger read rejects
  /\ UNCHANGED <<steps, credits, chain, plan, faulty>>

\* A status test that lets every step through.
IsActionable_always(status) == TRUE

\* `if (step.step_status !== AgentExecutionStatus.Pending) return;`
IsActionable(status) == status = Pending

\* `handlers[step.name]`: a property read on an object literal.  The own keys give
\* the stage handler; an inherited key gives a value that is truthy and that the
\* call `handler(step, payments)` cannot invoke (TypeError); any other name gives
\* undefined.
HandlerLookup(name) ==
  IF name \in StageNames THEN name
  ELSE IF name \in ObjectPrototypeKeys THEN "TypeError"
  ELSE Undefined

FirstLabel(h) ==
  IF h = "init" THEN "init_createSteps"
  ELSE IF h = "compileVideo" THEN "compile"
  ELSE "getPlanBalance"

\* What the stage asks settlement for: 1 for song and script (the default), the
\* number of sub-tasks for images and video.
RequiredBalance(name, items) == IF name \in FanOutStages THEN items ELSE 1

processSteps(p) ==
  /\ pc[p] = "loaded"
  /\ LET r == inv[p]
         h == HandlerLookup(r.name)
     IN  IF ~IsActionable(r.status) THEN Return(p, r)
         ELSE IF h = Undefined THEN Return(p, r)       \* logger.warn, no handler
         ELSE IF h = "TypeError" THEN Throw(p, r)
         ELSE Goto(p, FirstLabel(h),
                   [Bump(r, "handler") EXCEPT
                      !.handler = h,
                      !.required = RequiredBalance(r.name, r.items)])
  /\ UNCHANGED <<steps, credits, chain, plan, faulty>>

\* ------------------------------------------------------------ handleInitStep
Successors == <<"callSongGenerator", "generateMusicScript", "callImagesGenerator",
                "callVideoGenerator", "compileVideo">>

\* A batch whose steps all name the init step as their predecessor.
createSteps_unlinked(S, s) ==
  S \o [i \in 1..Len(Successors) |->
          [task |-> S[s].task, name |-> Successors[i], status |-> Pending,
           items |-> S[s].items, hist |-> <<>>, pred |-> s,
           isLast |-> (i = Len(Successors))]]

\* `await payments.query.createSteps(step.did, step.task_id, { steps })`: five
\* records, each the predecessor of the next, the first after the init step.
createSteps(S, s) ==
  S \o [i \in 1..Len(Successors) |->
          [task |-> S[s].task, name |-> Successors[i], status |-> Pending,
           items |-> S[s].items, hist |-> <<>>,
           pred |-> IF i = 1 THEN s ELSE Len(S) + i - 1,
           isLast |-> (i = Len(Successors))]]

handleInitStep_createSteps(p) ==
  /\ pc[p] = "init_createSteps"
  /\ \/ /\ steps' = createSteps(steps, inv[p].step)
        /\ Goto(p, "init_updateStep", Bump(inv[p], "createSteps"))
     \/ /\ faulty
        /\ Throw(p, Bump(inv[p], "createSteps"))   \* no try/catch in the handler
        /\ UNCHANGED steps
  /\ UNCHANGED <<credits, chain, plan, faulty>>

handleInitStep_updateStep(p) ==
  /\ pc[p] = "init_updateStep"
  /\ steps' = updateStep(steps, inv[p].step, Completed)
  /\ Return(p, Bump(inv[p], "updateStep"))
  /\ UNCHANGED <<credits, chain, plan, faulty>>

\* ------------------------------------------------- ensureSufficientBalance
\* An error path that narrates and leaves the ledger alone.
sendStepErrorAndLog_silent(S, r) == S

\* sendStepErrorAndLog: narrate the error, then
\* `payments.query.updateStep(step.did, {...step, step_status: "Failed", output})`.
sendStepErrorAndLog(S, r) == updateStep(S, r.step, Failed)

\* A handler that goes on whatever settlement answered.
MayDispatch_ungated(hasBalance) == TRUE

\* `if (!hasBalance) return;` in each paying handler.
MayDispatch(hasBalance) == hasBalance

\* ensureSufficientBalance returns `ok` to the handler, which goes on to dispatch or
\* returns.  A false return has written the step Failed first.
Settle(p, r, ok) ==
  LET r2 == [r EXCEPT !.settled = TRUE, !.hasBalance = ok,
                      !.creditsAtReturn = credits]
  IN  /\ steps' = IF ok THEN steps
                  ELSE sendStepErrorAndLog(steps, Bump(r, "updateStep"))
      /\ IF MayDispatch(ok) THEN Goto(p, "getServiceAccessConfig", r2)
         ELSE Return(p, IF ok THEN r2
                        ELSE Bump(sendFriendlySseEvent(r2, "errors"), "updateStep"))

\* A test that does not look at ownership.
NeedsCredits_ownerBlind(balance, required, isOwner) == balance < required

\* `parseInt(balanceResult.balance) < requiredBalance && !balanceResult.isOwner`
NeedsCredits(balance, required, isOwner) == balance < required /\ ~isOwner

\* getAndCheckBalance, then the test of ensureSufficientBalance: one call of
\* payments.getPlanBalance, not retried.
getPlanBalance(p) ==
  /\ pc[p] = "getPlanBalance"
  /\ LET r == Bump(inv[p], "getPlanBalance")
     IN  \/ /\ faulty
            /\ Settle(p, r, FALSE)                   \* the query throws
            /\ UNCHANGED <<credits, chain, plan, faulty>>
         \/ \E owner \in Answers("isOwner", BOOLEAN) :
              LET r2 == [r EXCEPT !.queried = TRUE, !.balance = credits,
                                  !.isOwner = owner]
              IN  /\ plan' = Learn(plan, "isOwner", owner)
                  /\ UNCHANGED <<credits, chain, faulty>>
                  /\ IF NeedsCredits(credits, r.required, owner)
                     THEN Goto(p, "loadTokens", r2) /\ UNCHANGED steps
                     ELSE Settle(p, r2, TRUE)

\* ------------------------------------------------ handleInsufficientBalance
\* A comparison of the addresses as spelled, without toLowerCase.
TokensDiffer_caseSensitive(ext, our) == IsSet(ext) /\ IsSet(our) /\ ext # our

\* `externalTokenAddress && ourTokenAddress &&
\*  externalTokenAddress.toLowerCase() !== ourTokenAddress.toLowerCase()`
TokensDiffer(ext, our) ==
  IsSet(ext) /\ IsSet(our) /\ toLowerCase(ext) # toLowerCase(our)

\* handleInsufficientBalance up to the own-wallet check: both descriptors are loaded
\* (PlanDDOHelper.loadDDO, memoized for the rest of the settlement) and the token
\* addresses compared; when they differ handleTokenSwapIfNeeded first requires the
\* agent wallet to be present.
loadTokens(p) ==
  /\ pc[p] = "loadTokens"
  /\ UNCHANGED <<credits, chain, faulty>>
  /\ \/ /\ faulty
        /\ Throw(p, inv[p])              \* getAssetDDO rejects: nothing catches it
        /\ UNCHANGED <<steps, plan>>
     \/ \E ext \in Answers("token", ExtTokens),
           wallet \in Answers("agentWallet", BOOLEAN) :
          LET d == TokensDiffer(ext, OurToken)
              r == [inv[p] EXCEPT !.compared = TRUE, !.tokensDiffer = d,
                                  !.agentWallet = wallet]
          IN  /\ plan' = Learn(Learn(plan, "token", ext), "agentWallet", wallet)
              /\ IF ~d THEN Goto(p, "getBlockNumber", r) /\ UNCHANGED steps
                 ELSE IF ~wallet
                 THEN Settle(p, [r EXCEPT !.subFailed = TRUE], FALSE)
                 ELSE Goto(p, "isBalanceSufficient", r) /\ UNCHANGED steps

\* -------------------------------------------------- handleTokenSwapIfNeeded
\* A strict comparison, balance.gt instead of balance.gte.
isBalanceSufficient_strict(balance, requiredAmount) ==
  balance > parseUnits(requiredAmount, TokenDecimals)

\* isBalanceSufficient(tokenAddress, walletAddress, requiredAmount):
\* `balance.gte(ethers.utils.parseUnits(requiredAmount, decimals))`
isBalanceSufficient(balance, requiredAmount) ==
  balance >= parseUnits(requiredAmount, TokenDecimals)

\* retryOperation(operation, maxRetries, onError) around a call without effect
\* when it throws: `fails` attempts throw before one answers.  The attempts made,
\* and whether the last one threw too (the error is re-raised).
Attempts(fails) == IF fails > MaxRetries THEN MaxRetries + 1 ELSE fails + 1
\* A policy that gives up at the first failure.
Exhausted_atOnce(fails) == fails > 0
Exhausted(fails) == fails > MaxRetries
Fails == IF faulty THEN 0..(MaxRetries + 1) ELSE {0}

Repeat(r, f, k) == [r EXCEPT !.n[f] = @ + k]

\* The own-wallet check under retryOperation.
isBalanceSufficient_retry(p) ==
  /\ pc[p] = "isBalanceSufficient"
  /\ UNCHANGED <<credits, chain, plan, faulty>>
  /\ \E fails \in Fails :
       LET r == Repeat(inv[p], "warnings", fails)
           ok == isBalanceSufficient(chain.agent, PlanPrice)
       IN  IF Exhausted(fails)
           THEN Settle(p, [r EXCEPT !.subFailed = TRUE], FALSE)
           ELSE /\ UNCHANGED steps
                /\ Goto(p, IF ok THEN "getBlockNumber" ELSE "swap_begin",
                        [r EXCEPT !.checked = TRUE, !.walletBalance = chain.agent,
                                  !.sufficient = ok, !.attempt = 0])

\* One attempt of the swap operation has thrown: retryOperation's catch.
SwapAttemptFailed(p, r) ==
  LET r2 == Bump(r, "warnings")
  IN  IF r.attempt = MaxRetries
      THEN Settle(p, [r2 EXCEPT !.subFailed = TRUE], FALSE)
      ELSE /\ Goto(p, "swap_begin", [r2 EXCEPT !.attempt = @ + 1])
           /\ UNCHANGED steps

\* A sequence that sends the next transaction with the nonce of the last.
NextNonce_same(nonce) == nonce
\* `nonce++` after approve and after the swap.
NextNonce(nonce) == nonce + 1

\* A transaction sent with an explicit nonce is mined only with the account's next
\* nonce; `txs` records every submission, with the attempt of the swap operation
\* that made it and the transaction count that attempt fetched.
Submit(c, kind, nonce, p) ==
  [c EXCEPT !.txs = @ \cup {[kind |-> kind, nonce |-> nonce, by |-> p,
                              attempt |-> inv[p].attempt, base |-> inv[p].base]}]
Mined(c, nonce) == nonce = c.txCount

\* performSwapForPlan, the reads: token data, pair, reserves, the trade, then
\* `provider.getTransactionCount(address, "pending")`.
performSwapForPlan_quote(p) ==
  /\ pc[p] = "swap_begin"
  /\ UNCHANGED <<credits, chain, plan, faulty>>
  /\ \/ faulty /\ SwapAttemptFailed(p, inv[p])
     \/ /\ Goto(p, "approve",
                [Bump(inv[p], "getTransactionCount") EXCEPT
                   !.base = chain.txCount, !.nonce = chain.txCount])
        /\ UNCHANGED steps

\* `ourTokenContract.approve(router, maxAmountIn, { nonce })`, `nonce++`
performSwapForPlan_approve(p) ==
  /\ pc[p] = "approve"
  /\ UNCHANGED <<credits, plan, faulty>>
  /\ LET r == Bump(inv[p], "approve")
         c == Submit(chain, "approve", r.nonce, p)
     IN  \/ /\ faulty \/ ~Mined(chain, r.nonce)
            /\ chain' = c
            /\ SwapAttemptFailed(p, r)
         \/ /\ Mined(chain, r.nonce)
            /\ chain' = [c EXCEPT !.txCount = @ + 1]
            /\ Goto(p, "swapTx", [r EXCEPT !.nonce = NextNonce(@)])
            /\ UNCHANGED steps

\* `router.swapTokensForExactTokens(requiredAmount, maxAmountIn, path, wallet, ...)`:
\* exactly requiredAmount raw units of the external token reach the signer wallet.
performSwapForPlan_swap(p) ==
  /\ pc[p] = "swapTx"
  /\ UNCHANGED <<credits, plan, faulty>>
  /\ LET r == Bump(inv[p], "swap")
         c == Submit(chain, "swap", r.nonce, p)
     IN  \/ /\ faulty \/ ~Mined(chain, r.nonce)
            /\ chain' = c
            /\ SwapAttemptFailed(p, r)
         \/ /\ Mined(chain, r.nonce)
            /\ chain' = [c EXCEPT !.txCount = @ + 1, !.signer = @ + PlanPrice]
            /\ Goto(p, "transfer",
                    [r EXCEPT !.nonce = NextNonce(@), !.swapped = TRUE])
            /\ UNCHANGED steps

\* transferAmountToAgentWallet: `if (balance.lt(amount)) return { success: false }`
HasFunds(balance, amount) == ~(balance < amount)

\* performSwapForPlan's result after transferAmountToAgentWallet has returned
\* transferResult: `return { success: true, swapTxHash, transferTxHash }`.
SwapSuccess(transferSuccess) == TRUE

\* transferAmountToAgentWallet(extToken, wallet, agentWallet, requiredAmount, nonce),
\* then the end of performSwapForPlan and of handleTokenSwapIfNeeded.
performSwapForPlan_transfer(p) ==
  /\ pc[p] = "transfer"
  /\ UNCHANGED <<credits, plan, faulty>>
  /\ LET r == inv[p]
         amountBN == parseUnits(PlanPrice, TokenDecimals)
         c == Submit(chain, "transfer", r.nonce, p)
     IN  IF ~HasFunds(chain.signer, PlanPrice)
         THEN \* no transaction is sent
              /\ chain' = chain
              /\ IF SwapSuccess(FALSE)
                 THEN Goto(p, "getBlockNumber", r) /\ UNCHANGED steps
                 ELSE Settle(p, [r EXCEPT !.subFailed = TRUE], FALSE)
         ELSE \/ /\ faulty \/ ~Mined(chain, r.nonce) \/ chain.signer < amountBN
                 /\ chain' = c                       \* the transfer reverts or fails
                 /\ SwapAttemptFailed(p, Bump(r, "transfer"))
              \/ /\ Mined(chain, r.nonce)
                 /\ chain.signer >= amountBN
                 /\ chain' = [c EXCEPT !.txCount = @ + 1,
                                       !.signer = @ - amountBN,
                                       !.agent = @ + amountBN]
                 /\ Goto(p, "getBlockNumber",
                         [Bump(r, "transfer") EXCEPT !.transferred = TRUE])
                 /\ UNCHANGED steps

\* ------------------------------------------------------ orderCreditsForPlan
\* `const fromBlock = await getBlockNumber();` - outside the try block.
getBlockNumber(p) ==
  /\ pc[p] = "getBlockNumber"
  /\ UNCHANGED <<steps, credits, chain, plan, faulty>>
  /\ LET r == Bump(inv[p], "orderOp")
     IN  \/ faulty /\ Throw(p, r)
         \/ Goto(p, "orderPlan", [r EXCEPT !.fromBlock = chain.height])

\* The TransferSingle event a successful order leaves on the chain; the external
\* ledger decides which operator mints.
MintEvent(block, operator) ==
  [block |-> block, operator |-> operator, from |-> ZeroAddress,
   to |-> AgentWallet, id |-> PlanTokenId, value |-> CreditsPerOrder]

\* A test that takes every answer of orderPlan for a success.
OrderSucceeded_always(success) == TRUE

\* `if (!orderResult.success) throw new Error(...)`
OrderSucceeded(success) == success

\* retryOperation(() => payments.orderPlan(planDid), 2, ...) and the test of its
\* result; an attempt that throws has ordered nothing.
orderPlan(p) ==
  /\ pc[p] = "orderPlan"
  /\ UNCHANGED faulty
  /\ \E fails \in Fails, success \in {TRUE} \cup {~faulty},
        op \in Answers("operator", Operators) :
       LET r == Repeat(Repeat(inv[p], "orderPlan", Attempts(fails)),
                       "warnings", fails)
           r2 == [r EXCEPT !.answered = TRUE, !.ordered = success]
       IN  IF Exhausted(fails)
           THEN /\ success /\ op = plan.operator
                /\ Settle(p, r, FALSE)
                /\ UNCHANGED <<credits, chain, plan>>
           ELSE /\ IF success
                   THEN /\ plan' = Learn(plan, "operator", op)
                        /\ credits' = credits + CreditsPerOrder
                        /\ chain' = [chain EXCEPT
                               !.height = @ + 1,
                               !.mints = Append(@, MintEvent(chain.height + 1, op))]
                   ELSE /\ op = plan.operator
                        /\ UNCHANGED <<credits, chain, plan>>
                /\ IF OrderSucceeded(success)
                   THEN Goto(p, "findERC1155Mints", r2) /\ UNCHANGED steps
                   ELSE Settle(p, r2, FALSE)

\* contract.queryFilter(filters.TransferSingle(operator, from, to), fromBlock): the
\* node matches the three indexed fields and the block range, in chain order.
RECURSIVE queryFilter(_, _, _, _, _)
queryFilter(events, operator, from, to, fromBlock) ==
  IF events = <<>> THEN <<>>
  ELSE LET ev == Head(events)
           rest == queryFilter(Tail(events), operator, from, to, fromBlock)
       IN  IF /\ ev.operator = operator /\ ev.from = from /\ ev.to = to
              /\ ev.block >= fromBlock
           THEN <<ev>> \o rest ELSE rest

\* `events.filter((ev) => ev.args && ev.args.id.toString() === tokenId)`
RECURSIVE filterTokenId(_, _)
filterTokenId(events, tokenId) ==
  IF events = <<>> THEN <<>>
  ELSE IF Head(events).id = tokenId
       THEN <<Head(events)>> \o filterTokenId(Tail(events), tokenId)
       ELSE filterTokenId(Tail(events), tokenId)

\* findERC1155Mints(planHelper, ourPlanHelper, fromBlock): no mint parameters
\* without the agent wallet.
findERC1155Mints(events, haveWallet, fromBlock) ==
  IF ~haveWallet THEN <<>>
  ELSE filterTokenId(queryFilter(events, MintOperator, ZeroAddress, AgentWallet,
                                 fromBlock), PlanTokenId)

\* A report of the first event found.
Reported_first(mintEvents) ==
  IF Len(mintEvents) > 0 THEN mintEvents[1].value ELSE 0

\* `mintEvents[mintEvents.length - 1]`: the value narrated, 0 when none is.
Reported(mintEvents) ==
  IF Len(mintEvents) > 0 THEN mintEvents[Len(mintEvents)].value ELSE 0

\* The confirmation scan, inside orderCreditsForPlan's try block, not retried.
findERC1155Mints_scan(p) ==
  /\ pc[p] = "findERC1155Mints"
  /\ UNCHANGED <<credits, chain, plan, faulty>>
  /\ LET r == Bump(inv[p], "scan")
         found == findERC1155Mints(chain.mints, r.agentWallet, r.fromBlock)
     IN  \/ faulty /\ Settle(p, r, FALSE)           \* the query throws: caught
         \/ Settle(p, [r EXCEPT !.scanned = TRUE, !.reported = Reported(found)],
                   TRUE)

\* ------------------------------------------------------------ the handlers
\* updateStepFailure(step, payments, errorMessage)
updateStepFailure(S, r) == updateStep(S, r.step, Failed)

\* After a true settlement: `await payments.query.getServiceAccessConfig(agentDid)`
\* and, for the song and script stages, `await getBlockNumber()`; neither is inside
\* a try block.
getServiceAccessConfig(p) ==
  /\ pc[p] = "getServiceAccessConfig"
  /\ UNCHANGED <<steps, credits, chain, plan, faulty>>
  /\ \/ faulty /\ Throw(p, inv[p])
     \/ Goto(p, IF inv[p].handler \in FanOutStages THEN "fanOut" ELSE "executeTask",
             [inv[p] EXCEPT !.attempt = 0, !.item = 1, !.failedCount = 0])

\* One attempt of retryOperation(() => executeTaskWithValidation(...), 2, onError)
\* in handleCallSongGenerator and handleGenerateMusicScript: createTask, the
\* completion signal and the validator, which writes the step Completed.
\*   "rejected"  - the acknowledgement is not 201, the signal reports Failed, or the
\*                 validator throws on the read-back
\*   "validated" - the signal reports Completed and the validator writes the step
\*   "unwritten" - validateMusicScriptTask reads the task back as not Completed and
\*                 returns without writing
\*   "stalled"   - no signal ever arrives
TaskOutcomes(handler) ==
  IF ~faulty THEN {"validated"}
  ELSE {"rejected", "validated", "stalled"}
         \cup (IF handler = "generateMusicScript" THEN {"unwritten"} ELSE {})

executeTaskWithValidation(p) ==
  /\ pc[p] = "executeTask"
  /\ UNCHANGED <<credits, chain, plan, faulty>>
  /\ \E out \in TaskOutcomes(inv[p].handler) :
       LET r == Bump(inv[p], "createTask")
       IN  CASE out = "validated" ->
                  /\ steps' = updateStep(steps, r.step, Completed)
                  /\ Return(p, Bump(r, "updateStep"))
             [] out = "unwritten" -> Return(p, r) /\ UNCHANGED steps
             [] out = "stalled" -> Goto(p, "stalled", r) /\ UNCHANGED steps
             [] out = "rejected" ->
                  LET rw == sendFriendlySseEvent(r, "taskWarnings")
                  IN  IF r.attempt = MaxRetries
                      THEN /\ steps' = updateStepFailure(steps, r)
                           /\ Return(p, Bump(sendFriendlySseEvent(rw, "errors"),
                                             "updateStep"))
                      ELSE /\ Goto(p, "executeTask", [rw EXCEPT !.attempt = @ + 1])
                           /\ UNCHANGED steps

\* `if (failedCount > 3) throw` in handleCallVideoGenerator; a sub-task of
\* handleCallImagesGenerator that exhausts its retries rejects Promise.all.
VideoFailureThreshold == 3
\* A stage that tolerates any number of failed sub-tasks.
StageFails_never(handler, failedCount) == FALSE
StageFails(handler, failedCount) ==
  IF handler = "callVideoGenerator" THEN failedCount > VideoFailureThreshold
  ELSE failedCount > 0

\* One attempt of one sub-task of a fan-out stage (createImageTask,
\* createVideoTaskForPrompt under retryOperation), and, once the last sub-task has
\* settled, the stage's outcome.
fanOut(p) ==
  /\ pc[p] = "fanOut"
  /\ UNCHANGED <<credits, chain, plan, faulty>>
  /\ \E ok \in {TRUE} \cup {~faulty} :
       LET r == Bump(inv[p], "createTask")
           exhausted == ~ok /\ r.attempt = MaxRetries
           r2 == IF ok THEN r
                 ELSE [sendFriendlySseEvent(r, "taskWarnings") EXCEPT
                         !.failedCount = IF exhausted THEN @ + 1 ELSE @]
           \* the video stage narrates its own throw, and every catch narrates
           r3 == IF r.handler = "callVideoGenerator"
                 THEN sendFriendlySseEvent(sendFriendlySseEvent(r2, "errors"), "errors")
                 ELSE sendFriendlySseEvent(r2, "errors")
           settledItem == ok \/ exhausted
       IN  IF ~settledItem
           THEN Goto(p, "fanOut", [r2 EXCEPT !.attempt = @ + 1]) /\ UNCHANGED steps
           ELSE IF r.item < r.items
           THEN /\ Goto(p, "fanOut", [r2 EXCEPT !.item = @ + 1, !.attempt = 0])
                /\ UNCHANGED steps
           ELSE IF StageFails(r.handler, r2.failedCount)
           THEN /\ steps' = updateStepFailure(steps, r2)
                /\ Return(p, Bump(r3, "updateStep"))
           ELSE /\ steps' = updateStep(steps, r2.step, Completed)
                /\ Return(p, Bump(r2, "updateStep"))

\* handleCompileVideo: merge, overlay, upload, then the Completed write; any error
\* before it is caught and written Failed.
handleCompileVideo(p) ==
  /\ pc[p] = "compile"
  /\ UNCHANGED <<credits, chain, plan, faulty>>
  /\ \/ /\ steps' = updateStep(steps, inv[p].step, Completed)
        /\ Goto(p, "unlink", Bump(inv[p], "updateStep"))
     \/ /\ faulty
        /\ steps' = updateStepFailure(steps, inv[p])
        /\ Return(p, Bump(sendFriendlySseEvent(inv[p], "errors"), "updateStep"))

\* `fs.unlinkSync(tempOutputPath); fs.unlinkSync(finalOutputPath);` - still inside
\* the try block whose catch writes the step Failed.
handleCompileVideo_unlink(p) ==
  /\ pc[p] = "unlink"
  /\ UNCHANGED <<credits, chain, plan, faulty>>
  /\ \/ Return(p, inv[p]) /\ UNCHANGED steps
     \/ /\ faulty
        /\ steps' = updateStepFailure(steps, inv[p])
        /\ Return(p, Bump(sendFriendlySseEvent(inv[p], "errors"), "updateStep"))

\* ------------------------------------------------------------------- Next
Next ==
  /\ UNCHANGED <<retry, call, fan, helper, taskQueues>>
  /\ \E p \in Procs :
       \/ \E s \in 1..Len(steps) : getStep(p, s)
       \/ processSteps(p)
       \/ handleInitStep_createSteps(p)
       \/ handleInitStep_updateStep(p)
       \/ getPlanBalance(p)
       \/ loadTokens(p)
       \/ isBalanceSufficient_retry(p)
       \/ performSwapForPlan_quote(p)
       \/ performSwapForPlan_approve(p)
       \/ performSwapForPlan_swap(p)
       \/ performSwapForPlan_transfer(p)
       \/ getBlockNumber(p)
       \/ orderPlan(p)
       \/ findERC1155Mints_scan(p)
       \/ getServiceAccessConfig(p)
       \/ executeTaskWithValidation(p)
       \/ fanOut(p)
       \/ handleCompileVideo(p)
       \/ handleCompileVideo_unlink(p)

Spec == Init /\ [][Next]_vars

\* ------------------------------------------------- the confirmation scan alone
\* A settlement that has just ordered, on a chain that holds any TransferSingle
\* events in block order: other operators, senders, token ids and values.
MintValues == {5, 7}
Events ==
  [block : 1..MaxBlock, operator : Operators, from : {ZeroAddress, "0xsender"},
   to : {AgentWallet}, id : {PlanTokenId, "otherTokenId"}, value : MintValues]
EventLogs ==
  {log \in UNION {[1..k -> Events] : k \in 0..MaxEvents} :
     \A i \in 1..(Len(log) - 1) : log[i].block <= log[i + 1].block}

Ordering(fromBlock) ==
  [Fresh EXCEPT !.step = 1, !.status = Pending, !.name = "callSongGenerator",
                !.handler = "callSongGenerator", !.required = 1,
                !.queried = TRUE, !.compared = TRUE, !.agentWallet = TRUE,
                !.fromBlock = fromBlock, !.answered = TRUE, !.ordered = TRUE,
                !.n = [NoCalls EXCEPT !.handler = 1, !.getPlanBalance = 1,
                                      !.orderOp = 1, !.orderPlan = 1]]

InitMints ==
  /\ steps = <<StepRec(1, "callSongGenerator", Pending, 1)>>
  /\ credits = CreditsPerOrder
  /\ plan = NoPlan
  /\ faulty = FALSE
  /\ \E log \in EventLogs, b \in 1..MaxBlock :
        /\ chain = [signer |-> 0, agent |-> 0, txCount |-> 0, height |-> MaxBlock,
                    mints |-> log, txs |-> {}]
        /\ inv = [p \in Procs |-> IF p = 1 THEN Ordering(b) ELSE Fresh]
  /\ pc = [p \in Procs |-> IF p = 1 THEN "findERC1155Mints" ELSE "off"]
  /\ retry = NoRetry /\ call = NoCall /\ fan = NoFan /\ helper = NoHelper
  /\ taskQueues = NoQueues

NextMints == findERC1155Mints_scan(1) /\ UNCHANGED <<retry, call, fan, helper, taskQueues>>

SpecMints == InitMints /\ [][NextMints]_vars

\* ------------------------------------------- two tasks settling side by side
\* Two tasks, each with one Pending step of a paid stage, whose notifications are
\* both delivered; the orchestrator holds no credits and the agent wallet is empty
\* or funded.  No external call fails of its own accord.
InitSwap ==
  /\ \E nm1 \in PaidStages, nm2 \in PaidStages :
        steps = <<StepRec(1, nm1, Pending, 1), StepRec(2, nm2, Pending, 1)>>
  /\ credits = 0
  /\ plan = NoPlan
  /\ \E a \in {0, PriceUnits} :
        chain = [signer |-> PriceUnits - 2 * PlanPrice, agent |-> a,
                 txCount |-> 0, height |-> 1, mints |-> <<>>, txs |-> {}]
  /\ faulty = FALSE
  /\ pc = [p \in Procs |-> "idle"]
  /\ inv = [p \in Procs |-> Fresh]
  /\ retry = NoRetry /\ call = NoCall /\ fan = NoFan /\ helper = NoHelper
  /\ taskQueues = NoQueues

\* Invocation p is started by the notification of task p's step.
NextSwap ==
  /\ UNCHANGED <<retry, call, fan, helper, taskQueues>>
  /\ \E p \in Procs :
       \/ getStep(p, p)
       \/ processSteps(p)
       \/ getPlanBalance(p)
       \/ loadTokens(p)
       \/ isBalanceSufficient_retry(p)
       \/ performSwapForPlan_quote(p)
       \/ performSwapForPlan_approve(p)
       \/ performSwapForPlan_swap(p)
       \/ performSwapForPlan_transfer(p)
       \/ getBlockNumber(p)
       \/ orderPlan(p)
       \/ findERC1155Mints_scan(p)
       \/ getServiceAccessConfig(p)
       \/ executeTaskWithValidation(p)
       \/ fanOut(p)

SpecSwap == InitSwap /\ [][NextSwap]_vars

\* ------------------------------------------------------ retryOperation alone
\* retryOperation(operation, maxRetries, onError) on an operation that fails or
\* succeeds at each invocation; `outs` is the outcome of every invocation so far,
\* `callbacks` the attempt index passed to every onError call so far, `err` the
\* invocation whose error was caught last.

\* An attempt counter that is never advanced.
NextAttempt_stuck(attempt) == attempt
\* `attempt++`
NextAttempt(attempt) == attempt + 1

\* A test that gives up one attempt early.
LastAttempt_early(attempt, maxRetries) == attempt + 1 >= maxRetries
\* `if (attempt === maxRetries) throw err;`
LastAttempt(attempt, maxRetries) == attempt = maxRetries

\* `while (attempt <= maxRetries)`
Continue(attempt, maxRetries) == attempt <= maxRetries

\* Invocations of the operation that are followed: one more than any call makes.
MaxOps == MaxRetryCount + 2

InitRetry ==
  /\ steps = <<>> /\ credits = 0 /\ plan = NoPlan /\ faulty = FALSE
  /\ chain = [signer |-> 0, agent |-> 0, txCount |-> 0, height |-> 1,
              mints |-> <<>>, txs |-> {}]
  /\ pc = [p \in Procs |-> "off"]
  /\ inv = [p \in Procs |-> Fresh]
  /\ call = NoCall /\ fan = NoFan /\ helper = NoHelper
  /\ taskQueues = NoQueues
  /\ \E R \in 0..MaxRetryCount, cb \in BOOLEAN :
        retry = [NoRetry EXCEPT !.pc = "operation", !.maxRetries = R, !.onError = cb]

\* The loop head and `return await operation();`
retryOperation_try ==
  /\ retry.pc = "operation"
  /\ Len(retry.outs) < MaxOps
  /\ IF ~Continue(retry.attempt, retry.maxRetries)
     THEN retry' = [retry EXCEPT !.pc = "done", !.result = "unreachable"]
     ELSE \E out \in {"value", "error"} :
            retry' = [retry EXCEPT
                        !.outs = Append(@, out),
                        !.pc = IF out = "value" THEN "done" ELSE "catch",
                        !.err = IF out = "value" THEN @ ELSE Len(retry.outs) + 1,
                        !.result = IF out = "value" THEN "value" ELSE @]
  /\ UNCHANGED <<steps, credits, chain, plan, faulty, pc, inv, call, fan, helper,
               taskQueues>>

\* The catch block: onError, then rethrow or count the attempt.
retryOperation_catch ==
  /\ retry.pc = "catch"
  /\ LET r == IF retry.onError
              THEN [retry EXCEPT !.callbacks = Append(@, retry.attempt)]
              ELSE retry
     IN  retry' = IF LastAttempt(r.attempt, r.maxRetries)
                  THEN [r EXCEPT !.pc = "done", !.result = "error"]
                  ELSE [r EXCEPT !.pc = "operation", !.attempt = NextAttempt(@)]
  /\ UNCHANGED <<steps, credits, chain, plan, faulty, pc, inv, call, fan, helper,
               taskQueues>>

NextRetry == retryOperation_try \/ retryOperation_catch

SpecRetry == InitRetry /\ [][NextRetry]_vars

\* retryOperation alone, or at work in the handlers.
InitRetried == Init \/ InitRetry
NextRetried == Next \/ NextRetry
SpecRetried == InitRetried /\ [][NextRetried]_vars

\* ------------------------------------------- executeTaskWithValidation alone
\* One call: createTask is awaited, its callback is invoked for every signal the
\* task's subscription delivers, and the promise settles.
TaskStatuses == {Completed, Failed, Pending}
Created == 201
Acks == {Created, 500}

TaskIds == {"task-1", "task-2"}

\* An error that says only that some task failed.
TaskFailedError_anonymous(task_id, status) == <<"A task failed with status:", status>>
\* new Error(`Task ${taskLog.task_id} failed with status: ${taskLog.task_status}`)
TaskFailedError(task_id, status) == <<"Task", task_id, "failed with status:", status>>
\* new Error(`Error creating task: ${JSON.stringify(result.data)}`)
CreateTaskError(ack) == <<"Error creating task:", ack>>
\* What validationFn returns, and what it throws.
Artifacts == <<"artifacts">>
ValidationError == <<"validation failed">>

\* resolve(v) and reject(e): only the first call settles the promise.
SettlePromise(c, state, value) ==
  IF c.state = "pending"
  THEN [c EXCEPT !.state = state, !.value = value, !.settles = @ + 1]
  ELSE [c EXCEPT !.settles = @ + 1]

InitInvoker ==
  /\ steps = <<>> /\ credits = 0 /\ plan = NoPlan /\ faulty = FALSE
  /\ chain = [signer |-> 0, agent |-> 0, txCount |-> 0, height |-> 1,
              mints |-> <<>>, txs |-> {}]
  /\ pc = [p \in Procs |-> "off"]
  /\ inv = [p \in Procs |-> Fresh]
  /\ retry = NoRetry /\ fan = NoFan /\ helper = NoHelper
  /\ taskQueues = NoQueues
  /\ \E id \in TaskIds : call = [NoCall EXCEPT !.pc = "createTask", !.task_id = id]

\* `const result = await payments.query.createTask(...)` returns, then
\* `if (result.status !== 201) reject(...)`.  Signals may have been delivered to the
\* callback in the meantime.  When the call throws instead, the async executor's
\* own promise rejects and the executor stops: neither resolve nor reject is called.
createTask_returns ==
  /\ call.pc = "createTask"
  /\ \/ \E ack \in Acks :
          call' = IF ack # Created
                  THEN SettlePromise([call EXCEPT !.pc = "returned", !.ack = ack],
                                     "rejected", CreateTaskError(ack))
                  ELSE [call EXCEPT !.pc = "returned", !.ack = ack]
     \/ call' = [call EXCEPT !.pc = "threw"]
  /\ UNCHANGED <<steps, credits, chain, plan, faulty, pc, inv, retry, fan, helper,
               taskQueues>>

\* The callback: `if Completed` starts validationFn, `else if Failed` rejects.
taskCallback ==
  /\ call.pc \in {"createTask", "returned"}
  /\ call.ack \in {0, Created}
  /\ Len(call.signals) < MaxSignals
  /\ \E status \in TaskStatuses :
       LET c == [call EXCEPT !.signals = Append(@, status)]
       IN  call' = CASE status = Completed ->
                          [c EXCEPT !.validations = @ + 1, !.validating = @ + 1]
                     [] status = Failed -> SettlePromise(c, "rejected", TaskFailedError(c.task_id, status))
                     [] OTHER -> c
  /\ UNCHANGED <<steps, credits, chain, plan, faulty, pc, inv, retry, fan, helper,
               taskQueues>>

\* `const artifacts = await validationFn(...); resolve(artifacts);` or the catch.
validationFn_returns ==
  /\ call.validating > 0
  /\ \E ok \in BOOLEAN :
       LET c == [call EXCEPT !.validating = @ - 1]
       IN  call' = IF ok THEN SettlePromise(c, "resolved", Artifacts)
                   ELSE SettlePromise(c, "rejected", ValidationError)
  /\ UNCHANGED <<steps, credits, chain, plan, faulty, pc, inv, retry, fan, helper,
               taskQueues>>

NextInvoker == createTask_returns \/ taskCallback \/ validationFn_returns

SpecInvoker == InitInvoker /\ [][NextInvoker]_vars
\* Every pending continuation of the call eventually runs.
SpecInvokerFair == SpecInvoker /\ WF_vars(NextInvoker)

\* ----------------------------------------------------- a fan-out stage alone
\* handleCallImagesGenerator and handleCallVideoGenerator after a true settlement:
\* the sub-tasks run concurrently, each under retryOperation(..., 2, ...); the
\* handler awaits Promise.all over them and writes the step.  Sub-task i's result
\* is i; 0 is null.  `order` lists the sub-tasks in the order they settled.
SubTasks(f) == 1..Len(f.sub)
Unsettled(f) == {i \in SubTasks(f) : f.sub[i].state = "running"}
Rejected(f) == {i \in SubTasks(f) : f.sub[i].state = "rejected"}

\* videoTaskPromises wraps each retryOperation in try/catch and returns null;
\* charactersPromises and settingsPromises are the retryOperation promises.
CatchesSubTask(stage) == stage = "callVideoGenerator"

\* Results gathered in the order the sub-tasks completed.
PromiseAllValues_asCompleted(sub, order) ==
  [k \in 1..Len(order) |-> IF sub[order[k]].state = "resolved" THEN order[k] ELSE 0]
\* What `await Promise.all(promises)` gives once every promise has resolved: the
\* values in the order of the promises.
PromiseAllValues(sub, order) ==
  [i \in 1..Len(sub) |-> IF sub[i].state = "resolved" THEN i ELSE 0]

\* `results.filter((result) => result !== null)`
NonNull(results) == SelectSeq(results, LAMBDA v : v # 0)

\* The error Promise.all rejects with: that of the first promise to reject.
FirstRejection(f) ==
  LET ks == {k \in 1..Len(f.order) : f.sub[f.order[k]].state = "rejected"}
  IN  f.order[CHOOSE k \in ks : \A j \in ks : k <= j]

TooManyFailures(failedCount) ==
  <<"Too many video generation failures:", failedCount, "videos failed after retries">>

\* `cost: successfulVideos.length * 5`
VideoCost == 5
\* The cost written with the Completed status: one credit per image requested,
\* five per video obtained.
StepCost(stage, results, successful) ==
  IF stage = "callVideoGenerator" THEN Len(successful) * VideoCost
  ELSE Len(results)
\* The amount the stage passed to ensureSufficientBalance: prompts.length, or
\* characters.length + settings.length - one per sub-task.
RequiredCredits(f) == Len(f.sub)

InitFanOut ==
  /\ steps = <<>> /\ credits = 0 /\ plan = NoPlan /\ faulty = FALSE
  /\ chain = [signer |-> 0, agent |-> 0, txCount |-> 0, height |-> 1,
              mints |-> <<>>, txs |-> {}]
  /\ pc = [p \in Procs |-> "off"]
  /\ inv = [p \in Procs |-> Fresh]
  /\ retry = NoRetry /\ call = NoCall /\ helper = NoHelper
  /\ taskQueues = NoQueues
  /\ \E stage \in FanOutStages, N \in 1..MaxSubTasks :
        fan = [NoFan EXCEPT
                 !.pc = "awaiting", !.stage = stage,
                 !.sub = [i \in 1..N |-> [attempt |-> 0, state |-> "running"]]]

\* One attempt of sub-task i settles: the task resolves, or it rejects and
\* retryOperation tries again or gives up.  Nothing stops a sub-task when the
\* handler has gone on.
subTask(i) ==
  /\ fan.pc # "off"
  /\ fan.sub[i].state = "running"
  /\ \E ok \in BOOLEAN :
       LET last == fan.sub[i].attempt = MaxRetries
       IN  fan' = IF ok
                  THEN [fan EXCEPT !.sub[i].state = "resolved", !.order = Append(@, i)]
                  ELSE IF last
                  THEN [fan EXCEPT !.sub[i].state = "rejected", !.order = Append(@, i)]
                  ELSE [fan EXCEPT !.sub[i].attempt = @ + 1]
  /\ UNCHANGED <<steps, credits, chain, plan, faulty, pc, inv, retry, call, helper,
               taskQueues>>

\* The handler resumes after `await Promise.all(...)`: with the results when every
\* promise has resolved, in the catch block as soon as one has rejected.
fanOut_outcome ==
  /\ fan.pc = "awaiting"
  /\ LET caught == CatchesSubTask(fan.stage)
         rejects == ~caught /\ Rejected(fan) # {}
         results == PromiseAllValues(fan.sub, fan.order)
         successful == NonNull(results)
         failedCount == Len(results) - Len(successful)
         w == [NoWrite EXCEPT !.unsettled = Cardinality(Unsettled(fan))]
     IN  /\ rejects \/ Unsettled(fan) = {}
         /\ fan' = [fan EXCEPT
               !.pc = "written",
               !.write =
                  IF rejects
                  THEN [w EXCEPT !.status = Failed,
                          !.output = <<"Image generation failed:", "sub-task error",
                                       FirstRejection(fan)>>]
                  ELSE IF caught /\ StageFails(fan.stage, failedCount)
                  THEN [w EXCEPT !.status = Failed, !.failedCount = failedCount,
                          !.output = <<"Video generation step failed:">>
                                       \o TooManyFailures(failedCount)]
                  ELSE [w EXCEPT !.status = Completed, !.failedCount = failedCount,
                          !.cost = StepCost(fan.stage, results, successful),
                          !.artifacts = successful]]
  /\ UNCHANGED <<steps, credits, chain, plan, faulty, pc, inv, retry, call, helper,
               taskQueues>>

NextFanOut == (\E i \in SubTasks(fan) : subTask(i)) \/ fanOut_outcome

SpecFanOut == InitFanOut /\ [][NextFanOut]_vars

\* ------------------------------------------------- a chain of two stages
\* A task whose song and script steps exist (created by the init handler), with
\* credits in hand.  The ledger notifies the song step, and the script step once the
\* song step has been written Completed; it delivers at least once, to the callback
\* subscribed in main(), which is free again when an invocation has ended.  External
\* calls may fail.
InitChain ==
  /\ steps = <<StepRec(1, "callSongGenerator", Pending, 1),
               [StepRec(1, "generateMusicScript", Pending, 1) EXCEPT !.pred = 1]>>
  /\ credits = MaxCredits
  /\ plan = NoPlan
  /\ chain = [signer |-> 0, agent |-> 0, txCount |-> 0, height |-> 1,
              mints |-> <<>>, txs |-> {}]
  /\ faulty = TRUE
  /\ pc = [p \in Procs |-> "idle"]
  /\ inv = [p \in Procs |-> Fresh]
  /\ retry = NoRetry /\ call = NoCall /\ fan = NoFan /\ helper = NoHelper
  /\ taskQueues = NoQueues

\* The step's predecessor has been written Completed (or it has none).
Notifiable(S, s) ==
  IF S[s].pred = 0 THEN TRUE
  ELSE \E i \in 1..Len(S[S[s].pred].hist) : S[S[s].pred].hist[i] = Completed

\* `payments.query.subscribe(processSteps(payments), ...)`: the callback is invoked
\* anew for each notification.
subscribe(p) ==
  /\ pc[p] = "done"
  /\ pc' = [pc EXCEPT ![p] = "idle"]
  /\ inv' = [inv EXCEPT ![p] = Fresh]
  /\ UNCHANGED <<steps, credits, chain, plan, faulty>>

NextChain ==
  /\ UNCHANGED <<retry, call, fan, helper, taskQueues>>
  /\ \E p \in Procs :
       \/ \E s \in 1..Len(steps) : Notifiable(steps, s) /\ getStep(p, s)
       \/ processSteps(p)
       \/ getPlanBalance(p)
       \/ getServiceAccessConfig(p)
       \/ executeTaskWithValidation(p)
       \/ subscribe(p)

SpecChain == InitChain /\ [][NextChain]_vars

\* ----------------------------------------------------- PlanDDOHelper alone
\* One instance and up to MaxCalls accessor calls on it, in any interleaving.  The
\* registry holds a descriptor in which any of the optional fields may be missing;
\* the k-th answer of getAssetDDO is stamped k.
Accessors == {"getTokenAddress", "getTokenName", "getPlanPrice", "getAgentWallet",
              "get1155ContractAddress"}

\* The descriptor field each accessor reads, and its value when present.
DescriptorValue(accessor) ==
  CASE accessor = "getTokenAddress" -> "0xToken"
    [] accessor = "getTokenName" -> "USDC"
    [] accessor = "getPlanPrice" -> "1"
    [] accessor = "getAgentWallet" -> "0xOwner"
    [] accessor = "get1155ContractAddress" -> "0xNFT1155"

\* The optional chain of each accessor: `ddo?.service?.[2]?....` gives undefined for
\* a missing field, and getPlanPrice ends with `?.toString() || "0"`.
ReadField(ddo, accessor) ==
  IF accessor \in ddo.present THEN DescriptorValue(accessor)
  ELSE IF accessor = "getPlanPrice" THEN "0"
  ELSE Undefined

InitPlan ==
  /\ steps = <<>> /\ credits = 0 /\ plan = NoPlan /\ faulty = FALSE
  /\ chain = [signer |-> 0, agent |-> 0, txCount |-> 0, height |-> 1,
              mints |-> <<>>, txs |-> {}]
  /\ pc = [p \in Procs |-> "off"]
  /\ inv = [p \in Procs |-> Fresh]
  /\ retry = NoRetry /\ call = NoCall /\ fan = NoFan /\ taskQueues = NoQueues
  /\ \E present \in SUBSET Accessors :
        helper = [NoHelper EXCEPT !.pc = "on", !.present = present]

\* An accessor is called: loadDDO runs up to its await.  `if (!this.ddo)` issues
\* getAssetDDO; otherwise the memoized descriptor is returned and read.
accessor_call(a) ==
  /\ helper.pc = "on"
  /\ Len(helper.calls) < MaxCalls
  /\ helper' =
       IF helper.ddo = NoDDO
       THEN [helper EXCEPT
               !.queries = @ + 1,
               !.calls = Append(@, [accessor |-> a, state |-> "loading",
                                    query |-> helper.queries + 1,
                                    version |-> 0, value |-> Undefined])]
       ELSE [helper EXCEPT
               !.calls = Append(@, [accessor |-> a, state |-> "returned",
                                    query |-> 0, version |-> helper.ddo.version,
                                    value |-> ReadField(helper.ddo, a)])]
  /\ UNCHANGED <<steps, credits, chain, plan, faulty, pc, inv, retry, call, fan,
               taskQueues>>

\* getAssetDDO answers call c: `this.ddo = await ...; return this.ddo;` and the
\* accessor reads its field.
getAssetDDO_returns(c) ==
  /\ helper.calls[c].state = "loading"
  /\ LET ddo == [version |-> helper.calls[c].query, present |-> helper.present]
     IN  helper' = [helper EXCEPT
                      !.ddo = ddo,
                      !.calls[c].state = "returned",
                      !.calls[c].version = ddo.version,
                      !.calls[c].value = ReadField(ddo, helper.calls[c].accessor)]
  /\ UNCHANGED <<steps, credits, chain, plan, faulty, pc, inv, retry, call, fan,
               taskQueues>>

NextPlan ==
  \/ \E a \in Accessors : accessor_call(a)
  \/ \E c \in 1..Len(helper.calls) : getAssetDDO_returns(c)

SpecPlan == InitPlan /\ [][NextPlan]_vars

\* ------------------------------------------------------ the narration queues
\* runInQueue(taskId, fn) for the narration functions of sendFriendlySseEvent.
\* taskQueues[taskId] is a chain of promises, one link per call; calls lists the
\* calls in the order they were made.  For call k:
\*   fn     - "queued", "running", "fulfilled", "rejected"; "never" once it is
\*            certain that fn will not be called
\*   link   - the promise `taskQueues[taskId].then(() => fn().then(...))`
\*   reason - what a rejected link rejects with: the call whose fn rejected
\*   result - the local `result`; fn of call k fulfils with k
\*   caller - "awaiting" the link, "returned" result, or "threw" the reason
MaxQueued == 4

\* The call queued before call k for the same task; 0 when k is the first.
Prev(calls, k) ==
  LET js == {j \in 1..(k - 1) : calls[j].task = calls[k].task}
  IN  IF js = {} THEN 0 ELSE CHOOSE j \in js : \A i \in js : i <= j
\* The promise call k chained on: `Promise.resolve()` for the first of a task.
PrevLink(calls, k) ==
  IF Prev(calls, k) = 0 THEN "fulfilled" ELSE calls[Prev(calls, k)].link

\* A chain whose links do not wait for one another.
MayStart_unchained(prev) == TRUE
\* `.then(() => fn()...)`: the onFulfilled callback runs once the promise it was
\* attached to has fulfilled.
MayStart(prev) == prev = "fulfilled"

InitQueue ==
  /\ steps = <<>> /\ credits = 0 /\ plan = NoPlan /\ faulty = FALSE
  /\ chain = [signer |-> 0, agent |-> 0, txCount |-> 0, height |-> 1,
              mints |-> <<>>, txs |-> {}]
  /\ pc = [p \in Procs |-> "off"]
  /\ inv = [p \in Procs |-> Fresh]
  /\ retry = NoRetry /\ call = NoCall /\ fan = NoFan /\ helper = NoHelper
  /\ taskQueues = [NoQueues EXCEPT !.pc = "on"]

\* A caller enters runInQueue: the link is chained on the task's queue and the
\* caller suspends at `await taskQueues[taskId]`.
runInQueue(t) ==
  /\ taskQueues.pc = "on"
  /\ Len(taskQueues.calls) < MaxQueued
  /\ taskQueues' = [taskQueues EXCEPT
        !.calls = Append(@, [task |-> t, fn |-> "queued", link |-> "pending",
                             reason |-> 0, result |-> 0, caller |-> "awaiting"])]
  /\ UNCHANGED <<steps, credits, chain, plan, faulty, pc, inv, retry, call, fan,
                 helper>>

\* The link's onFulfilled callback runs: fn is called.
fn_called(k) ==
  /\ taskQueues.calls[k].fn = "queued"
  /\ MayStart(PrevLink(taskQueues.calls, k))
  /\ taskQueues' = [taskQueues EXCEPT !.calls[k].fn = "running"]
  /\ UNCHANGED <<steps, credits, chain, plan, faulty, pc, inv, retry, call, fan,
                 helper>>

\* The promise the link was chained on has rejected: `then` has no onRejected
\* callback, so the link rejects with the same reason and fn is not called.
then_rejected(k) ==
  /\ taskQueues.calls[k].fn = "queued"
  /\ PrevLink(taskQueues.calls, k) = "rejected"
  /\ taskQueues' = [taskQueues EXCEPT
        !.calls[k].fn = "never", !.calls[k].link = "rejected",
        !.calls[k].reason = taskQueues.calls[Prev(taskQueues.calls, k)].reason]
  /\ UNCHANGED <<steps, credits, chain, plan, faulty, pc, inv, retry, call, fan,
                 helper>>

\* fn's promise settles: `(r) => { result = r; }` fulfils the link, a rejection
\* rejects it.
fn_settles(k) ==
  /\ taskQueues.calls[k].fn = "running"
  /\ \E ok \in BOOLEAN :
       taskQueues' =
          IF ok
          THEN [taskQueues EXCEPT !.calls[k].fn = "fulfilled",
                  !.calls[k].link = "fulfilled", !.calls[k].result = k]
          ELSE [taskQueues EXCEPT !.calls[k].fn = "rejected",
                  !.calls[k].link = "rejected", !.calls[k].reason = k]
  /\ UNCHANGED <<steps, credits, chain, plan, faulty, pc, inv, retry, call, fan,
                 helper>>

\* The caller resumes after `await taskQueues[taskId]`: `return result!`, or the
\* await throws the link's reason.
runInQueue_returns(k) ==
  /\ taskQueues.calls[k].caller = "awaiting"
  /\ taskQueues.calls[k].link # "pending"
  /\ taskQueues' = [taskQueues EXCEPT
        !.calls[k].caller =
           IF taskQueues.calls[k].link = "fulfilled" THEN "returned" ELSE "threw"]
  /\ UNCHANGED <<steps, credits, chain, plan, faulty, pc, inv, retry, call, fan,
                 helper>>

NextQueue ==
  \/ \E t \in TaskIds : runInQueue(t)
  \/ \E k \in 1..Len(taskQueues.calls) :
        fn_called(k) \/ then_rejected(k) \/ fn_settles(k) \/ runInQueue_returns(k)

SpecQueue == InitQueue /\ [][NextQueue]_vars

\* ------------------------------------------------------------- properties
Finished(p) == pc[p] = "done"
SwapLabels == {"swap_begin", "approve", "swapTx", "transfer"}
NoSwapCalls(p) ==
  inv[p].n.approve = 0 /\ inv[p].n.swap = 0 /\ inv[p].n.transfer = 0
\* The balance query answered: fewer credits than required, and not the owner.
Short(p) ==
  inv[p].queried /\ inv[p].balance < inv[p].required /\ ~inv[p].isOwner
SameToken(p) ==
  inv[p].compared /\ IsSet(plan.token) /\ plan.token.id = OurToken.id
OtherToken(p) ==
  inv[p].compared /\ IsSet(plan.token) /\ plan.token.id # OurToken.id

\* C1: under at-least-once delivery every step is written out of Pending at most
\* once, and no updateStep is issued for a step after a Completed write.  Stated
\* for the runs in which no external call fails, where a second write can only
\* come from a second delivery.
C1_WrittenOnce ==
  ~faulty =>
    \A s \in 1..Len(steps) :
       /\ Len(steps[s].hist) <= 1
       /\ \A i \in 1..Len(steps[s].hist) :
            steps[s].hist[i] = Completed => i = Len(steps[s].hist)

\* C2: an invocation whose loaded step is Completed or Failed invokes no stage
\* handler and issues no settlement call, no task dispatch, no createSteps and no
\* updateStep; it returns.
C2_NonPendingIsNoOp ==
  \A p \in Procs :
     inv[p].status \in {Completed, Failed} =>
        /\ inv[p].n = NoCalls
        /\ inv[p].handler = Undefined
        /\ ~inv[p].threw
        /\ pc[p] \in {"loaded", "done"}

C2_Witness ==
  \E p \in Procs : Finished(p) /\ inv[p].status = Completed

\* C3: a Pending step with a stage name reaches exactly the handler registered for
\* that name; a Pending step with any other name reaches no handler and the
\* invocation raises no exception.
C3_Routing ==
  \A p \in Procs :
     pc[p] \notin {"off", "idle", "loaded"} /\ inv[p].status = Pending =>
        IF inv[p].name \in StageNames
        THEN inv[p].handler = inv[p].name /\ inv[p].n.handler = 1
        ELSE inv[p].handler = Undefined /\ inv[p].n.handler = 0 /\ ~inv[p].threw

\* C4: a paying handler has dispatched a task only after ensureSufficientBalance
\* returned true in the same invocation; after a false return it has dispatched
\* none and has returned.
C4_DispatchGated ==
  \A p \in Procs :
     /\ inv[p].n.createTask > 0 => inv[p].settled /\ inv[p].hasBalance
     /\ inv[p].settled /\ ~inv[p].hasBalance =>
          inv[p].n.createTask = 0 /\ Finished(p)

C4_Witness ==
  \E p \in Procs : inv[p].n.createTask > 0 /\ inv[p].hasBalance

\* C5: when ensureSufficientBalance has returned true, the plan's balance at that
\* moment was at least the required amount, or the caller is the plan's owner.
C5_BalanceSecured ==
  \A p \in Procs :
     inv[p].settled /\ inv[p].hasBalance =>
        inv[p].creditsAtReturn >= inv[p].required \/ inv[p].isOwner

\* C6: when the balance query reports balance >= required or ownership,
\* ensureSufficientBalance returns true with no approve, swap, transfer or
\* orderPlan call and leaves the balance as it found it.
C6_FastPath ==
  \A p \in Procs :
     inv[p].queried /\ (inv[p].balance >= inv[p].required \/ inv[p].isOwner) =>
        /\ inv[p].settled /\ inv[p].hasBalance
        /\ NoSwapCalls(p)
        /\ inv[p].n.orderOp = 0 /\ inv[p].n.orderPlan = 0 /\ inv[p].n.scan = 0
        /\ inv[p].creditsAtReturn = inv[p].balance

\* Two settlements in the same state, both on the fast path.
C6_Witness ==
  \A p \in Procs :
     /\ inv[p].queried /\ inv[p].balance >= inv[p].required
     /\ inv[p].settled /\ inv[p].hasBalance
     /\ inv[p].balance = credits

\* C7: with balance < required, not the owner and the plan's token the same as the
\* orchestrator's, no approve, swap or transfer is made and orderCreditsForPlan is
\* entered exactly once, with at most MaxRetries + 1 calls of orderPlan and at least
\* one whenever the settlement returns.
C7_SameTokenOrdersOnce ==
  \A p \in Procs :
     Short(p) /\ SameToken(p) =>
        /\ NoSwapCalls(p)
        /\ inv[p].n.orderOp <= 1
        /\ inv[p].n.orderPlan <= MaxRetries + 1
        /\ Finished(p) => inv[p].n.orderOp = 1
        /\ inv[p].settled => inv[p].n.orderPlan >= 1

C7_Witness ==
  \E p \in Procs :
     /\ Short(p) /\ SameToken(p) /\ plan.token.cs = "mixed"
     /\ inv[p].settled /\ inv[p].hasBalance /\ inv[p].n.orderPlan >= 1

\* C8: with balance < required, the tokens different and the agent wallet found to
\* hold at least the plan's price in the plan's token, no approve, swap or transfer
\* is made and the credit order is still made.
C8_FundedWalletSkipsSwap ==
  \A p \in Procs :
     /\ Short(p) /\ OtherToken(p) /\ inv[p].checked
     /\ inv[p].walletBalance >= parseUnits(PlanPrice, TokenDecimals)
     => /\ NoSwapCalls(p)
        /\ pc[p] # "swap_begin"
        /\ Finished(p) => inv[p].n.orderOp = 1
        /\ inv[p].settled => inv[p].n.orderPlan >= 1

C8_Witness ==
  \E p \in Procs :
     /\ Short(p) /\ OtherToken(p) /\ inv[p].checked
     /\ inv[p].walletBalance >= parseUnits(PlanPrice, TokenDecimals)
     /\ inv[p].settled /\ inv[p].n.orderPlan >= 1

\* C9: after a failure in the swap sub-sequence, and in particular once the swap
\* is mined and the sub-sequence is over without the transfer having happened, no
\* credit order is made and the settlement does not return true.
C9_SwapFailureAborts ==
  \A p \in Procs :
     \/ inv[p].subFailed
     \/ inv[p].swapped /\ ~inv[p].transferred /\ pc[p] \notin SwapLabels
     => /\ inv[p].n.orderOp = 0 /\ inv[p].n.orderPlan = 0
        /\ ~(inv[p].settled /\ inv[p].hasBalance)

\* C10: once orderPlan has reported success the settlement returns true, whatever
\* the confirmation scan does, and does not write the step Failed.
C10_OrderedIsSettled ==
  \A p \in Procs :
     inv[p].ordered /\ pc[p] # "findERC1155Mints" =>
        inv[p].settled /\ inv[p].hasBalance

WrittenFailed(p) ==
  \E i \in 1..Len(steps[inv[p].step].hist) : steps[inv[p].step].hist[i] = Failed
\* ensureSufficientBalance has returned false, the step written Failed on the way.
GaveUp(p) ==
  /\ inv[p].settled /\ ~inv[p].hasBalance
  /\ Finished(p) /\ inv[p].n.updateStep = 1 /\ WrittenFailed(p)

\* C11: orderPlan is called only after the block height has been read; when it
\* reports non-success or exhausts its retries, settlement returns false, the step
\* is written Failed and no event scan is made.
C11_OrderFailureAborts ==
  \A p \in Procs :
     /\ inv[p].n.orderPlan > 0 => inv[p].fromBlock > 0
     /\ inv[p].n.scan > 0 => inv[p].fromBlock > 0
     /\ inv[p].n.orderPlan > 0 /\ ~inv[p].ordered =>
          GaveUp(p) /\ inv[p].n.scan = 0

\* An order that answered without success.
C11_Witness ==
  \E p \in Procs :
     inv[p].n.orderPlan > 0 /\ inv[p].answered /\ ~inv[p].ordered /\ GaveUp(p)

\* The events the scan is about: minted by the plan's operator from the zero address
\* to the orchestrator wallet, of the plan's token id, at or after the recorded block.
Matching(p) ==
  {i \in 1..Len(chain.mints) :
     /\ chain.mints[i].operator = MintOperator
     /\ chain.mints[i].from = ZeroAddress
     /\ chain.mints[i].to = AgentWallet
     /\ chain.mints[i].id = PlanTokenId
     /\ chain.mints[i].block >= inv[p].fromBlock}
Latest(I) == CHOOSE i \in I : \A j \in I : j <= i

\* C12: the value reported after the scan is that of the most recent matching event,
\* and nothing is reported when no event matches (an event of another token id is
\* never reported).
C12_LatestMintReported ==
  \A p \in Procs :
     inv[p].scanned =>
        IF Matching(p) = {} THEN inv[p].reported = 0
        ELSE inv[p].reported = chain.mints[Latest(Matching(p))].value

\* Value 5 then value 7, both matching: 7 is reported.
C12_Witness ==
  /\ inv[1].scanned /\ Matching(1) = {1, 2}
  /\ chain.mints[1].value = 5 /\ chain.mints[2].value = 7
  /\ chain.mints[1].block < chain.mints[2].block
  /\ inv[1].reported = 7

C14_BalanceQueryFatal ==
  \A p \in Procs :
     /\ inv[p].n.getPlanBalance <= 1
     /\ inv[p].n.getPlanBalance = 1 /\ ~inv[p].queried =>
          /\ GaveUp(p)
          /\ NoSwapCalls(p)
          /\ inv[p].n.orderOp = 0 /\ inv[p].n.orderPlan = 0 /\ inv[p].n.scan = 0
          /\ inv[p].n.createTask = 0

C14_Witness ==
  \E p \in Procs :
     inv[p].n.getPlanBalance = 1 /\ ~inv[p].queried /\ GaveUp(p)

NonceOffset(kind) ==
  IF kind = "approve" THEN 0 ELSE IF kind = "swap" THEN 1 ELSE 2
TxsBy(p) == {t \in chain.txs : t.by = p}

\* C15, as stated: within a settlement the transaction count is fetched once, the
\* approve, swap and transfer transactions carry that count plus 0, 1 and 2, and no
\* nonce is used twice.
C15_NonceFetchedOnce ==
  \A p \in Procs :
     /\ inv[p].n.getTransactionCount <= 1
     /\ \A t \in TxsBy(p), u \in TxsBy(p) :
          /\ t.base = u.base
          /\ t.nonce = t.base + NonceOffset(t.kind)
          /\ t # u => t.nonce # u.nonce

\* C15, amended: within one attempt of the swap operation the approve, swap and
\* transfer transactions are submitted in that order with nonces n, n + 1 and n + 2,
\* n being the transaction count fetched at the start of that attempt; the count is
\* fetched once per attempt, at most MaxRetries + 1 times in a settlement.
C15_NonceSequencePerAttempt ==
  \A p \in Procs :
     /\ inv[p].n.getTransactionCount <= MaxRetries + 1
     /\ inv[p].checked /\ ~inv[p].settled =>
          inv[p].n.getTransactionCount <= inv[p].attempt + 1
     /\ \A t \in TxsBy(p) :
          /\ t.nonce = t.base + NonceOffset(t.kind)
          /\ t.kind = "swap" =>
               \E u \in TxsBy(p) : u.kind = "approve" /\ u.attempt = t.attempt
          /\ t.kind = "transfer" =>
               \E u \in TxsBy(p) : u.kind = "swap" /\ u.attempt = t.attempt
          /\ \A u \in TxsBy(p) : u.attempt = t.attempt => u.base = t.base

\* A settlement whose second attempt submitted all three transactions.
C15_Witness ==
  \E p \in Procs :
     /\ inv[p].transferred /\ inv[p].n.getTransactionCount = 2
     /\ \E t \in TxsBy(p) : t.kind = "transfer" /\ t.attempt = 1

\* C16: when two settlements for different tasks run concurrently against the same
\* orchestrator wallet, no two transactions are ever submitted with the same nonce.
C16_NoSharedNonce ==
  \A t \in chain.txs, u \in chain.txs :
     t.by # u.by /\ steps[inv[t.by].step].task # steps[inv[u.by].step].task =>
        t.nonce # u.nonce

AllErrors(outs, k) == \A i \in 1..k : outs[i] = "error"
Indices(k) == [i \in 1..k |-> i - 1]

\* C17: retryOperation with maximum retry count R on an operation that fails
\* exactly R times and then succeeds returns the success value, having invoked the
\* error callback exactly R times with attempt indices 0, 1, ..., R-1 in increasing
\* order; and it has not given up while the operation has failed R times or fewer.
C17_SucceedsAfterRetries ==
  LET R == retry.maxRetries
  IN  /\ Len(retry.outs) = R + 1 /\ AllErrors(retry.outs, R)
         /\ retry.outs[R + 1] = "value" =>
            /\ retry.pc = "done" /\ retry.result = "value"
            /\ retry.onError => retry.callbacks = Indices(R)
      /\ Len(retry.outs) <= R => retry.result \in {"none", "value"}

C17_Witness ==
  /\ retry.maxRetries = MaxRetries /\ retry.onError
  /\ Len(retry.outs) = MaxRetries + 1 /\ AllErrors(retry.outs, MaxRetries)
  /\ retry.result = "value" /\ retry.callbacks = <<0, 1>>

\* C18: retryOperation with maximum retry count R on an operation that fails R+1
\* times re-raises the final error and has invoked the error callback exactly R
\* times: not for the last failure.
C18_NoCallbackForLastFailure ==
  LET R == retry.maxRetries
  IN  retry.pc = "done" /\ Len(retry.outs) = R + 1 /\ AllErrors(retry.outs, R + 1) =>
         /\ retry.result = "error" /\ retry.err = R + 1
         /\ retry.onError => Len(retry.callbacks) = R

Subtasks(p) == IF inv[p].handler \in FanOutStages THEN inv[p].items ELSE 1

\* C19: retryOperation with maximum retry count R invokes the operation at most
\* R+1 times and never again after the first success; and a handler invocation
\* dispatches at most MaxRetries + 1 = 3 remote tasks for each of its sub-tasks.
C19_BoundedAttempts ==
  /\ Len(retry.outs) <= retry.maxRetries + 1
  /\ AllErrors(retry.outs, Len(retry.outs) - 1)
  /\ retry.result = "value" => retry.pc = "done"
  /\ \A p \in Procs : inv[p].n.createTask <= (MaxRetries + 1) * Subtasks(p)

C19_Witness ==
  /\ retry.pc = "done" /\ retry.maxRetries = MaxRetries
  /\ Len(retry.outs) = MaxRetries + 1
  /\ retry.outs[MaxRetries + 1] = "value"

\* C20: for one call of executeTaskWithValidation the validator is invoked at most
\* once, however many times the completion signal is delivered.  (That the promise
\* settles at most once is what resolve and reject guarantee by themselves.)
C20_ValidatedOnce ==
  call.validations <= 1

Signalled(status) == \E i \in 1..Len(call.signals) : call.signals[i] = status
Mentions(msg, id) == \E i \in 1..Len(msg) : msg[i] = id

\* C21: a task-invoker call resolves only with the validator's result, after a
\* Completed signal; a Failed signal rejects it with an error naming the task
\* identifier; an acknowledgement other than 201 rejects it at once, with no signal
\* awaited; signals of any other status leave it pending.
C21_InvokerOutcomes ==
  /\ call.state = "resolved" =>
        call.value = <<"artifacts">> /\ Signalled(Completed) /\ call.validations > 0
  /\ Signalled(Completed) /\ call.validating = 0 => call.state # "pending"
  /\ Signalled(Failed) =>
        /\ call.state # "pending"
        /\ ~Signalled(Completed) /\ call.ack \in {0, 201} =>
              /\ call.state = "rejected"
              /\ Mentions(call.value, call.task_id) /\ Mentions(call.value, Failed)
  /\ call.ack \notin {0, 201} =>
        /\ call.state # "pending"
        /\ call.signals = <<>> =>
              call.state = "rejected" /\ call.value = <<"Error creating task:", call.ack>>
  /\ call.pc # "off" /\ call.ack \in {0, 201}
        /\ ~Signalled(Completed) /\ ~Signalled(Failed) => call.state = "pending"

\* A signal of another status, then Failed: rejected, naming the task.
C21_Witness ==
  /\ Len(call.signals) = 2 /\ call.signals[1] = Pending /\ call.signals[2] = Failed
  /\ call.state = "rejected" /\ Mentions(call.value, call.task_id)

Threshold(stage) == IF stage = "callVideoGenerator" THEN VideoFailureThreshold ELSE 0
ExhaustedCount(f) == Cardinality(Rejected(f))
Increasing(seq) == \A i \in 1..(Len(seq) - 1) : seq[i] < seq[i + 1]
Range(seq) == {seq[i] : i \in 1..Len(seq)}

C23_TooManyFailures ==
  fan.pc = "written" /\ ExhaustedCount(fan) > Threshold(fan.stage) =>
        /\ fan.write.status = Failed
        /\ fan.write.artifacts = <<>>
        /\ fan.stage = "callVideoGenerator" =>
              /\ fan.write.output[2] = "Too many video generation failures:"
              /\ fan.write.output[3] = ExhaustedCount(fan)

C23_Witness ==
  /\ fan.stage = "callVideoGenerator" /\ fan.pc = "written"
  /\ ExhaustedCount(fan) = VideoFailureThreshold + 1
  /\ fan.write.status = Failed

\* C24: in every fan-out stage the outcome is written only after every sub-task
\* has settled.
C24_WaitsForAll ==
  fan.pc = "written" => fan.write.unsettled = 0

\* C25: in every fan-out stage a sub-task that exhausts its retries is a soft
\* failure: the stage is written Failed only for a count of failures above its
\* threshold, never with the error of a sub-task.
C25_SoftFailures ==
  fan.write.status = Failed =>
     /\ fan.write.failedCount > Threshold(fan.stage)
     /\ fan.write.output[2] # "sub-task error"

StageOrder == <<"callSongGenerator", "generateMusicScript", "callImagesGenerator",
                "callVideoGenerator", "compileVideo">>
PlaceInBatch(s) == ((s - 2) % 5) + 1

\* C26: an invocation of the init handler creates its five successor steps in one
\* createSteps batch, before it writes the init step Completed; each batch is the
\* chain song -> script -> images -> video -> compile, every step's predecessor
\* being the step before it (the init step for the song step), and exactly the
\* compile step is flagged as last.
C26_InitCreatesChain ==
  /\ \A p \in Procs :
        /\ inv[p].n.createSteps <= 1
        /\ inv[p].handler = "init" /\ inv[p].n.updateStep > 0 =>
              /\ inv[p].n.createSteps = 1
              /\ Len(steps) >= 1 + 5
        /\ inv[p].handler # "init" => inv[p].n.createSteps = 0
  /\ Len(steps) \in {1, 6, 11}
  /\ Len(steps) > 1 => steps[1].name = "init"
  /\ \A s \in 2..Len(steps) :
        LET k == PlaceInBatch(s)
        IN  /\ steps[s].name = StageOrder[k]
            /\ steps[s].task = steps[1].task
            /\ steps[s].pred = IF k = 1 THEN 1 ELSE s - 1
            /\ steps[s].isLast <=> (k = 5)

C26_Witness ==
  /\ Len(steps) = 6 /\ steps[1].status = Completed
  /\ \E p \in Procs : inv[p].handler = "init" /\ inv[p].n.updateStep = 1

\* C27: no failure of an external call made while a step is processed propagates
\* out of the function returned by processSteps: an invocation ends by returning,
\* and one that an external failure has ended early has written the step Failed.
\* (The one rejection that is not an external failure, the call of an inherited
\* property of `handlers`, is set apart.)
C27_FailuresContained ==
  \A p \in Procs :
     inv[p].threw =>
        /\ inv[p].name \in ObjectPrototypeKeys
        /\ inv[p].n.handler = 0

WasWritten(s, status) == \E i \in 1..Len(steps[s].hist) : steps[s].hist[i] = status
\* An earlier stage of step s's task has been written Failed.
Halted(s) ==
  \E t \in 1..(s - 1) : steps[t].task = steps[s].task /\ WasWritten(t, Failed)

\* C28: once a step of a task has been written Failed, the engine dispatches no
\* remote task for a later stage of that task and writes no Completed outcome to
\* it; a stage handler creates no steps.
C28_ChainHalts ==
  [][\A s \in 1..Len(steps) :
        Halted(s) =>
           /\ \A p \in Procs :
                 inv[p].step = s /\ inv'[p].step = s =>
                    /\ inv'[p].n.createTask = inv[p].n.createTask
                    /\ inv'[p].n.createSteps = inv[p].n.createSteps
           /\ steps'[s].hist # steps[s].hist =>
                 steps'[s].hist[Len(steps'[s].hist)] # Completed]_vars

Returned(c) == helper.calls[c].state = "returned"

\* C29: for one PlanDDOHelper, under any sequence or interleaving of accessor
\* calls, the registry is queried for the descriptor at most once and every
\* accessor is served from the descriptor loaded the first time.
C29_LoadedOnce ==
  /\ helper.queries <= 1
  /\ \A c \in 1..Len(helper.calls) : Returned(c) => helper.calls[c].version = 1

\* C30: an accessor whose descriptor field is missing returns an absent value,
\* never a substituted default.
C30_MissingIsAbsent ==
  \A c \in 1..Len(helper.calls) :
     Returned(c) /\ helper.calls[c].accessor \notin helper.present =>
        helper.calls[c].value = Undefined

StageHandlers == {"callSongGenerator", "generateMusicScript", "callImagesGenerator",
                  "callVideoGenerator", "compileVideo"}
\* A stage handler was entered by the invocation and its promise has fulfilled.
ReturnedNormally(p) ==
  /\ Finished(p) /\ ~inv[p].threw
  /\ inv[p].n.handler > 0 /\ inv[p].handler \in StageHandlers

\* C33: every stage handler invocation that returns normally leaves its step
\* written Completed or Failed, never Pending.
C33_NoStepLeftPending ==
  \A p \in Procs : ReturnedNormally(p) => steps[inv[p].step].status # Pending

\* C36: within one settlement at most one swap is executed on chain: once the
\* transfer of an attempt has been submitted (its swap was mined), no later
\* attempt of the same settlement submits an approve or a swap.
C36_SwapExecutedOnce ==
  \A p \in Procs :
     \A t \in TxsBy(p), u \in TxsBy(p) :
        t.kind = "transfer" /\ u.kind \in {"approve", "swap"} =>
           u.attempt <= t.attempt

\* C37: within one handler invocation a step is never written Failed after it
\* has been written Completed (a run with a single invocation: every write of
\* the step is that invocation's).
C37_NoFailedAfterCompleted ==
  faulty =>
     \A s \in 1..Len(steps) :
        \A i \in 1..Len(steps[s].hist), j \in 1..Len(steps[s].hist) :
           i < j /\ steps[s].hist[i] = Completed => steps[s].hist[j] # Failed

\* C38: at most one chain of successor steps is ever created for a task, also
\* when the init step's notification is delivered a second time before the init
\* step has been written Completed.
C38_OneChainPerTask == Len(steps) <= 1 + Len(Successors)

\* C39: whenever the video-generation step is written Completed, its output
\* holds at least one generated video, for every number N >= 1 of prompts.
C39_CompletedHasVideo ==
  fan.stage = "callVideoGenerator" /\ fan.write.status = Completed =>
     Len(fan.write.artifacts) >= 1

\* C40: the cost written on a Completed step of a paid stage never exceeds the
\* credit amount the stage required from ensureSufficientBalance for that step.
C40_CostWithinRequired ==
  fan.write.status = Completed => fan.write.cost <= RequiredCredits(fan)

\* C34: a task-invoker call whose createTask throws is eventually rejected, not
\* left pending forever (so the handler awaiting it eventually returns).
C34_ThrowRejects == (call.pc = "threw") ~> (call.state = "rejected")

RECURSIVE FailedWrites(_)
\* The number of Failed writes made to the first k steps.
FailedWrites(k) ==
  IF k = 0 THEN 0
  ELSE FailedWrites(k - 1)
         + Cardinality({i \in 1..Len(steps[k].hist) : steps[k].hist[i] = Failed})
RECURSIVE ErrorsNarrated(_)
\* The number of error narrations handed over by the first k invocations.
ErrorsNarrated(k) == IF k = 0 THEN 0 ELSE ErrorsNarrated(k - 1) + inv[k].n.errors

\* C31: every Failed write is preceded by an error narration handed to the
\* notification sink for the step's task, and every failed attempt of a
\* dispatch under retryOperation hands over a warning narration: as many
\* warnings as failed attempts, the next attempt's index being their number.
C31_NarratedBeforeFailed ==
  /\ FailedWrites(Len(steps)) <= ErrorsNarrated(Cardinality(Procs))
  /\ \A p \in Procs :
        /\ pc[p] = "executeTask" =>
              inv[p].n.taskWarnings = inv[p].attempt
              /\ inv[p].n.taskWarnings = inv[p].n.createTask
        /\ pc[p] = "fanOut" =>
              inv[p].n.taskWarnings =
                 inv[p].n.createTask - ((inv[p].item - 1) - inv[p].failedCount)
        /\ Finished(p) /\ inv[p].n.createTask > 0 =>
              IF inv[p].handler \in {"callSongGenerator", "generateMusicScript"}
              THEN \/ inv[p].n.taskWarnings = inv[p].n.createTask - 1
                   \/ /\ inv[p].n.taskWarnings = MaxRetries + 1
                      /\ inv[p].n.createTask = MaxRetries + 1
                      /\ WrittenFailed(p) /\ inv[p].n.errors >= 1
              ELSE inv[p].n.taskWarnings =
                      inv[p].n.createTask - (inv[p].items - inv[p].failedCount)
        /\ inv[p].n.createTask = 0 => inv[p].n.taskWarnings = 0

\* A dispatch that failed three times: three warnings, then the error narration
\* and the Failed write.
C31_Witness ==
  \E p \in Procs :
     /\ Finished(p) /\ inv[p].handler = "callSongGenerator"
     /\ inv[p].n.taskWarnings = MaxRetries + 1 /\ inv[p].n.errors = 1
     /\ WrittenFailed(p) /\ inv[p].settled /\ inv[p].hasBalance

Over(c) == c.fn \in {"fulfilled", "rejected", "never"}
SameTask(i, j) == taskQueues.calls[i].task = taskQueues.calls[j].task

\* C32: the functions queued through runInQueue for one task run one at a time
\* and in the order they were queued - a function has been called only when
\* every function queued before it for the task is over - and a caller that
\* returns has the result of its own function.
C32_Serialized ==
  \A j \in 1..Len(taskQueues.calls) :
     /\ \A i \in 1..(j - 1) :
           SameTask(i, j) /\ taskQueues.calls[j].fn # "queued" =>
              Over(taskQueues.calls[i])
     /\ taskQueues.calls[j].caller = "returned" =>
           taskQueues.calls[j].fn = "fulfilled" /\ taskQueues.calls[j].result = j

\* Three callers queued at once, two for one task: the first has its result, the
\* second function runs, alongside that of the other task.
C32_Witness ==
  /\ Len(taskQueues.calls) >= 3
  /\ SameTask(1, 2) /\ ~SameTask(1, 3)
  /\ taskQueues.calls[1].caller = "returned" /\ taskQueues.calls[1].result = 1
  /\ taskQueues.calls[2].fn = "running" /\ taskQueues.calls[3].fn = "running"

\* C35: a rejection of one queued function does not keep the functions queued
\* later for the task from running: every queued function is called, and a
\* caller is thrown nothing but its own function's error.
C35_LaterFunctionsRun ==
  \A k \in 1..Len(taskQueues.calls) :
     /\ taskQueues.calls[k].fn # "never"
     /\ taskQueues.calls[k].caller = "threw" => taskQueues.calls[k].reason = k

=============================================================================
